---- MODULE Spec2Model ----
(***************************************************************************)
(* Connect Four (src/app.py): the board functions, the computer opponent   *)
(* and the Streamlit session (board, turn, winner, mode) driven by the     *)
(* column buttons, the Reset button and the Mode selectbox.                *)
(*                                                                         *)
(* Rows and columns are indexed as in the source: row 0 is the top row,    *)
(* row ROWS-1 the bottom row, columns 0..COLS-1 from the left.             *)
(***************************************************************************)
EXTENDS Integers, Sequences, FiniteSets, TLC

ROWS == 6
COLS == 7
EMPTY == 0
P1 == 1
P2 == 2

\* Python's None, returned by drop_piece for a full column.
None == -1

TwoPlayers == "2 Players"
VsComputer == "Vs Computer"
Modes == {TwoPlayers, VsComputer}

\* Bounds of the exploration (not program constants).
\* Column clicks are explored on boards holding fewer than MaxDrops pieces ...
MaxDrops == 3
\* ... and on boards with at most LateFree empty cells (the end game).
LateFree == 10
\* Direct calls of the board functions explored from each fixture board.
MaxFnCalls == 2

\* board, turn, winner, mode: the fields of st.session_state.
\* calls: the number of direct calls made on the board by FnSpec (below),
\* which drives the board functions without a session; 0 under Spec.
VARIABLES board, turn, winner, mode, calls

vars == <<board, turn, winner, mode, calls>>

RowIdx == 0 .. (ROWS - 1)
ColIdx == 0 .. (COLS - 1)

Min(S) == CHOOSE x \in S : \A y \in S : x <= y

abs(x) == IF x < 0 THEN -x ELSE x

(***************************************************************************)
(* Game logic                                                              *)
(***************************************************************************)

new_board == [r \in RowIdx |-> [c \in ColIdx |-> EMPTY]]

\* [c for c in range(COLS) if board[0][c] == EMPTY], from column c on.
RECURSIVE valid_from(_, _)
valid_from(b, c) ==
    IF c >= COLS THEN <<>>
    ELSE (IF b[0][c] = EMPTY THEN <<c>> ELSE <<>>) \o valid_from(b, c + 1)

valid_moves(b) == valid_from(b, 0)

\* The loop of drop_piece at row r: for r in range(ROWS - 1, -1, -1).
RECURSIVE drop_scan(_, _, _, _)
drop_scan(b, col, player, r) ==
    IF r < 0 THEN [board |-> b, ret |-> None]
    ELSE IF b[r][col] = EMPTY
         THEN [board |-> [b EXCEPT ![r][col] = player], ret |-> r]
         ELSE drop_scan(b, col, player, r - 1)

\* Mutant of drop_piece: the scan runs from the top row (range(ROWS)).
drop_piece_from_top(b, col, player) ==
    IF b[0][col] = EMPTY
    THEN [board |-> [b EXCEPT ![0][col] = player], ret |-> 0]
    ELSE drop_scan(b, col, player, ROWS - 1)

\* Mutant of drop_piece: a full column has its top cell overwritten.
drop_piece_overwrite_full(b, col, player) ==
    LET d == drop_scan(b, col, player, ROWS - 1)
    IN  IF d.ret = None
        THEN [board |-> [b EXCEPT ![0][col] = player], ret |-> 0]
        ELSE d

\* drop_piece mutates its argument: .board is the board after the call,
\* .ret the returned row index (None when the column is full).
drop_piece(b, col, player) == drop_scan(b, col, player, ROWS - 1)

\* The start cells of the four scans of check_winner in loop order, each
\* with its step <<r, c, dr, dc>>.
HorizontalLines ==
    [k \in 1 .. (ROWS * (COLS - 3)) |->
        <<(k - 1) \div (COLS - 3), (k - 1) % (COLS - 3), 0, 1>>]

\* Mutant of VerticalLines: range(ROWS - 4) for the start rows.
VerticalLinesShort ==
    [k \in 1 .. (COLS * (ROWS - 4)) |->
        <<(k - 1) % (ROWS - 4), (k - 1) \div (ROWS - 4), 1, 0>>]

VerticalLines ==
    [k \in 1 .. (COLS * (ROWS - 3)) |->
        <<(k - 1) % (ROWS - 3), (k - 1) \div (ROWS - 3), 1, 0>>]

DownRightLines ==
    [k \in 1 .. ((ROWS - 3) * (COLS - 3)) |->
        <<(k - 1) \div (COLS - 3), (k - 1) % (COLS - 3), 1, 1>>]

UpRightLines ==
    [k \in 1 .. ((ROWS - 3) * (COLS - 3)) |->
        <<3 + ((k - 1) \div (COLS - 3)), (k - 1) % (COLS - 3), -1, 1>>]

ScanOrder == HorizontalLines \o VerticalLines \o DownRightLines \o UpRightLines

\* p != EMPTY and all(board[r + i*dr][c + i*dc] == p for i in range(4))
line_hit(b, l) ==
    LET p == b[l[1]][l[2]]
    IN  /\ p # EMPTY
        /\ \A i \in 0 .. 3 : b[l[1] + i * l[3]][l[2] + i * l[4]] = p

\* The mark at the start of the first line that qualifies, else EMPTY.
check_winner(b) ==
    LET hits == {k \in 1 .. Len(ScanOrder) : line_hit(b, ScanOrder[k])}
    IN  IF hits = {} THEN EMPTY
        ELSE LET l == ScanOrder[Min(hits)] IN b[l[1]][l[2]]

\* Mutant of is_draw: a full top row alone, the winner not consulted.
is_draw_full_only(b) == \A c \in ColIdx : b[0][c] # EMPTY

\* Mutant of is_draw: any() instead of all() over the top row.
is_draw_any_top(b) ==
    /\ \E c \in ColIdx : b[0][c] # EMPTY
    /\ check_winner(b) = EMPTY

is_draw(b) ==
    /\ \A c \in ColIdx : b[0][c] # EMPTY
    /\ check_winner(b) = EMPTY

\* Mutant of simulate_call: b = board, no copy, so the drop lands on the
\* caller's board.
simulate_call_no_copy(board_arg, col, player) ==
    LET d == drop_piece(board_arg, col, player)
    IN  [board |-> d.board,
         ret   |-> IF d.ret = None THEN FALSE
                   ELSE check_winner(d.board) = player]

\* One call of simulate_move_and_check: b is a copy of the argument, row by
\* row, and drop_piece mutates b. .board is the caller's board after the
\* call, .ret the value returned.
simulate_call(board_arg, col, player) ==
    LET b == [r \in RowIdx |-> board_arg[r]]
        d == drop_piece(b, col, player)
    IN  [board |-> board_arg,
         ret   |-> IF d.ret = None THEN FALSE
                   ELSE check_winner(d.board) = player]

\* The value simulate_move_and_check returns.
simulate_move_and_check(b, col, player) == simulate_call(b, col, player).ret

\* key=lambda x: abs(x - (COLS // 2))
center_key(x) == abs(x - (COLS \div 2))

\* Mutant of sorted_insert: an unstable sort, x goes before equal keys.
sorted_insert_unstable(s, x) ==
    LET n == Cardinality({i \in 1 .. Len(s) : center_key(s[i]) < center_key(x)})
    IN  SubSeq(s, 1, n) \o <<x>> \o SubSeq(s, n + 1, Len(s))

\* sorted(moves, key=...): Python's sort is stable; x goes after every
\* element already placed whose key is not larger.
sorted_insert(s, x) ==
    LET n == Cardinality({i \in 1 .. Len(s) : center_key(s[i]) <= center_key(x)})
    IN  SubSeq(s, 1, n) \o <<x>> \o SubSeq(s, n + 1, Len(s))

RECURSIVE sorted_by_center(_)
sorted_by_center(moves) ==
    IF moves = <<>> THEN <<>>
    ELSE sorted_insert(sorted_by_center(SubSeq(moves, 1, Len(moves) - 1)),
                       moves[Len(moves)])

\* Mutant of cpu_pick_move: the center step ranks range(COLS), not moves.
cpu_pick_move_all_columns(b) ==
    LET moves == valid_moves(b)
        win   == {i \in 1 .. Len(moves) : simulate_move_and_check(b, moves[i], P2)}
        block == {i \in 1 .. Len(moves) : simulate_move_and_check(b, moves[i], P1)}
        center_order == sorted_by_center([i \in 1 .. COLS |-> i - 1])
    IN  IF moves = <<>> THEN {0}
        ELSE IF win # {} THEN {moves[Min(win)]}
        ELSE IF block # {} THEN {moves[Min(block)]}
        ELSE {center_order[i] : i \in 1 .. 3}

\* Mutant of cpu_pick_move: the block step runs before the win step.
cpu_pick_move_block_first(b) ==
    LET moves == valid_moves(b)
        win   == {i \in 1 .. Len(moves) : simulate_move_and_check(b, moves[i], P2)}
        block == {i \in 1 .. Len(moves) : simulate_move_and_check(b, moves[i], P1)}
        center_order == sorted_by_center(moves)
    IN  IF moves = <<>> THEN {0}
        ELSE IF block # {} THEN {moves[Min(block)]}
        ELSE IF win # {} THEN {moves[Min(win)]}
        ELSE IF Len(center_order) >= 3
             THEN {center_order[i] : i \in 1 .. 3}
             ELSE {center_order[i] : i \in 1 .. Len(center_order)}

\* Mutant of cpu_pick_move: the block step is missing.
cpu_pick_move_no_block(b) ==
    LET moves == valid_moves(b)
        win   == {i \in 1 .. Len(moves) : simulate_move_and_check(b, moves[i], P2)}
        center_order == sorted_by_center(moves)
    IN  IF moves = <<>> THEN {0}
        ELSE IF win # {} THEN {moves[Min(win)]}
        ELSE IF Len(center_order) >= 3
             THEN {center_order[i] : i \in 1 .. 3}
             ELSE {center_order[i] : i \in 1 .. Len(center_order)}

\* The set of values cpu_pick_move(board) can return: one value where the
\* code is deterministic, the candidates of random.choice otherwise.
cpu_pick_move(b) ==
    LET moves == valid_moves(b)
        win   == {i \in 1 .. Len(moves) : simulate_move_and_check(b, moves[i], P2)}
        block == {i \in 1 .. Len(moves) : simulate_move_and_check(b, moves[i], P1)}
        center_order == sorted_by_center(moves)
    IN  IF moves = <<>> THEN {0}
        ELSE IF win # {} THEN {moves[Min(win)]}
        ELSE IF block # {} THEN {moves[Min(block)]}
        ELSE IF Len(center_order) >= 3
             THEN {center_order[i] : i \in 1 .. 3}
             ELSE {center_order[i] : i \in 1 .. Len(center_order)}

(***************************************************************************)
(* Session state and UI                                                    *)
(***************************************************************************)

\* st.session_state as a record.
Session(b, t, w, m) == [board |-> b, turn |-> t, winner |-> w, mode |-> m]

\* The session after the first script run.
initial_session == Session(new_board, P1, EMPTY, TwoPlayers)

\* Mutant of reset_game: the winner is not cleared.
reset_game_keeps_winner(s) == [s EXCEPT !.board = new_board, !.turn = P1]

reset_game(s) == [s EXCEPT !.board = new_board, !.turn = P1, !.winner = EMPTY]

locked(s) == s.winner # EMPTY \/ is_draw(s.board)

\* Mutant of can_play: the top cell of the column is not looked at.
can_play_any_column(s, c) == ~locked(s)

can_play(s, c) == (~locked(s)) /\ s.board[0][c] = EMPTY

\* The status line shown above the board.
status(s) ==
    IF s.winner # EMPTY
    THEN (IF s.winner = P1 THEN "Player 1 wins!" ELSE "Player 2 wins!")
    ELSE IF is_draw(s.board) THEN "It's a draw"
    ELSE IF s.mode = VsComputer /\ s.turn = P2 THEN "Turn: Computer"
    ELSE IF s.turn = P1 THEN "Turn: Player 1" ELSE "Turn: Player 2"

\* Mutant of human_move: the turn is flipped after every drop, also after
\* a winning one.
human_move_always_flip(s, c) ==
    LET b == drop_piece(s.board, c, s.turn).board
        w == check_winner(b)
        t == IF s.turn = P1 THEN P2 ELSE P1
    IN  IF w # EMPTY THEN [s EXCEPT !.board = b, !.winner = w, !.turn = t]
        ELSE [s EXCEPT !.board = b, !.turn = t]

\* "Human move": the first half of the column button handler.
human_move(s, c) ==
    LET b == drop_piece(s.board, c, s.turn).board
        w == check_winner(b)
    IN  IF w # EMPTY THEN [s EXCEPT !.board = b, !.winner = w]
        ELSE IF ~is_draw(b)
             THEN [s EXCEPT !.board = b,
                            !.turn = IF s.turn = P1 THEN P2 ELSE P1]
             ELSE [s EXCEPT !.board = b]

\* The condition of "CPU move if enabled".
\* Mutant of cpu_enabled: the draw test of the condition is left out.
cpu_enabled_no_draw_check(s) ==
    /\ s.mode = VsComputer
    /\ s.winner = EMPTY
    /\ s.turn = P2

cpu_enabled(s) ==
    /\ s.mode = VsComputer
    /\ s.winner = EMPTY
    /\ ~is_draw(s.board)
    /\ s.turn = P2

\* Mutant of cpu_move: the winner check after the computer's drop is missing.
cpu_move_no_winner_check(s, cpu_col) ==
    LET b == drop_piece(s.board, cpu_col, P2).board
    IN  IF ~is_draw(b) THEN [s EXCEPT !.board = b, !.turn = P1]
        ELSE [s EXCEPT !.board = b]

\* The body of "CPU move if enabled" with cpu_col as picked.
\* Mutant of cpu_move: the turn goes back to PlayerOne after a winning
\* drop too.
cpu_move_turn_always_back(s, cpu_col) ==
    LET b  == drop_piece(s.board, cpu_col, P2).board
        w2 == check_winner(b)
    IN  IF w2 # EMPTY THEN [s EXCEPT !.board = b, !.winner = w2, !.turn = P1]
        ELSE IF ~is_draw(b) THEN [s EXCEPT !.board = b, !.turn = P1]
        ELSE [s EXCEPT !.board = b]

cpu_move(s, cpu_col) ==
    LET b  == drop_piece(s.board, cpu_col, P2).board
        w2 == check_winner(b)
    IN  IF w2 # EMPTY THEN [s EXCEPT !.board = b, !.winner = w2]
        ELSE IF ~is_draw(b) THEN [s EXCEPT !.board = b, !.turn = P1]
        ELSE [s EXCEPT !.board = b]

\* Mutant of click_results: the computer does not answer in the same run.
click_results_human_only(s, c) == {human_move(s, c)}

\* The sessions a click on the enabled button of column c can leave.
click_results(s, c) ==
    LET h == human_move(s, c)
    IN  IF cpu_enabled(h)
        THEN {cpu_move(h, cpu_col) : cpu_col \in cpu_pick_move(h.board)}
        ELSE {h}

\* The sessions a request for column c can leave: a disabled button runs
\* no handler.
column_button(s, c) == IF can_play(s, c) THEN click_results(s, c) ELSE {s}

(***************************************************************************)
(* The session as a state machine                                          *)
(***************************************************************************)

cur == Session(board, turn, winner, mode)

Store(s) ==
    /\ board' = s.board
    /\ turn' = s.turn
    /\ winner' = s.winner
    /\ mode' = s.mode
    /\ UNCHANGED calls

Pieces(b) == Cardinality({rc \in RowIdx \X ColIdx : b[rc[1]][rc[2]] # EMPTY})

\* The boards on which column clicks are explored.
Explored(b) == Pieces(b) < MaxDrops \/ Pieces(b) >= ROWS * COLS - LateFree

\* A legal game that fills the board with no four-in-a-row, as the columns
\* clicked in 2 Players mode from the initial session.
LateGame ==
    <<6, 0, 0, 4, 2, 2, 4, 6, 3, 5, 6, 1, 2, 3, 5, 6, 6, 6, 1, 4, 4,
      4, 4, 1, 1, 2, 2, 1, 1, 0, 0, 5, 5, 5, 5, 0, 3, 3, 0, 2, 3, 3>>

\* LateGame with the columns mirrored left to right.
MirrorGame == [i \in 1 .. Len(LateGame) |-> (COLS - 1) - LateGame[i]]

\* The session after clicks i .. n of game g, from session s.
RECURSIVE ReplayFrom(_, _, _, _)
ReplayFrom(s, g, i, n) ==
    IF i > n THEN s
    ELSE CHOOSE r \in {ReplayFrom(t, g, i + 1, n) :
                            t \in column_button(s, g[i])} : TRUE

\* The session after the first n clicks of game g.
Replay(g, n) == ReplayFrom(initial_session, g, 1, n)

\* The first script run, or the same session LateFree moves before the end
\* of LateGame or of MirrorGame.
Init == \E g \in {LateGame, MirrorGame}, n \in {0, ROWS * COLS - LateFree} :
            LET s == Replay(g, n)
            IN  /\ board = s.board
                /\ turn = s.turn
                /\ winner = s.winner
                /\ mode = s.mode
                /\ calls = 0

ColumnButton(c) ==
    /\ Explored(board)
    /\ \E s \in column_button(cur, c) : Store(s)

Reset == Store(reset_game(cur))

SelectMode(m) == Store([cur EXCEPT !.mode = m])

Next ==
    \/ \E c \in ColIdx : ColumnButton(c)
    \/ Reset
    \/ \E m \in Modes : SelectMode(m)

Spec == Init /\ [][Next]_vars

(***************************************************************************)
(* The board functions called directly on a board (no session)             *)
(***************************************************************************)

\* The board after the drops seq[1], seq[2], ... of <<col, player>>.
RECURSIVE drop_all(_, _)
drop_all(b, seq) ==
    IF seq = <<>> THEN b
    ELSE drop_all(drop_piece(b, seq[1][1], seq[1][2]).board, Tail(seq))

\* PlayerOne holds columns 0..2 of the bottom row: column 3 must be blocked.
BlockFixture ==
    drop_all(new_board, <<<<0, P1>>, <<0, P2>>, <<1, P1>>, <<1, P2>>,
                          <<2, P1>>, <<6, P2>>>>)

\* PlayerOne wins at column 3, PlayerTwo wins at column 6.
WinAndBlockFixture ==
    drop_all(new_board, <<<<0, P1>>, <<6, P2>>, <<1, P1>>, <<6, P2>>,
                          <<2, P1>>, <<6, P2>>>>)

\* An artificial board holding a line of each player.
BothLinesFixture ==
    drop_all(new_board, <<<<0, P1>>, <<1, P1>>, <<2, P1>>, <<3, P1>>,
                          <<0, P2>>, <<1, P2>>, <<2, P2>>, <<3, P2>>>>)

\* The center column is full, with no four-in-a-row.
CenterFullFixture ==
    drop_all(new_board, <<<<3, P1>>, <<3, P2>>, <<3, P1>>, <<3, P2>>,
                          <<3, P1>>, <<3, P2>>>>)

\* A valley of mixed marks around PlayerOne's pieces in columns 2, 3 and 4:
\* two more drops complete a diagonal on either side.
DiagonalFixture ==
    drop_all(new_board, <<<<0, P2>>, <<0, P1>>, <<0, P2>>, <<1, P1>>, <<1, P2>>,
                          <<2, P2>>, <<2, P1>>, <<3, P1>>, <<4, P2>>, <<4, P1>>,
                          <<5, P1>>, <<5, P2>>, <<6, P2>>, <<6, P1>>, <<6, P2>>>>)

\* The boards the functions are called on: the empty board, the fixtures,
\* three positions of LateGame's middle game and its last five boards (the
\* full board included).
FnBoards ==
    {new_board, BlockFixture, WinAndBlockFixture, BothLinesFixture,
     CenterFullFixture, DiagonalFixture}
    \cup {Replay(LateGame, n).board : n \in {14, 21, 28}}
    \cup {Replay(LateGame, n).board : n \in (ROWS * COLS - 4) .. (ROWS * COLS)}

FnInit ==
    /\ board \in FnBoards
    /\ winner = check_winner(board)
    /\ turn = P1
    /\ mode = TwoPlayers
    /\ calls = 0

\* drop_piece(board, c, p), then check_winner(board) kept in winner.
FnDrop(c, p) ==
    /\ calls < MaxFnCalls
    /\ board' = drop_piece(board, c, p).board
    /\ winner' = check_winner(board')
    /\ calls' = calls + 1
    /\ UNCHANGED <<turn, mode>>

\* cpu_col = cpu_pick_move(board); drop_piece(board, cpu_col, P2).
FnCpuDrop ==
    /\ calls < MaxFnCalls
    /\ \E cpu_col \in cpu_pick_move(board) :
            board' = drop_piece(board, cpu_col, P2).board
    /\ winner' = check_winner(board')
    /\ calls' = calls + 1
    /\ UNCHANGED <<turn, mode>>

\* simulate_move_and_check(board, c, p): board is the caller's board after
\* the call; then check_winner(board) kept in winner.
FnSimulate(c, p) ==
    /\ calls < MaxFnCalls
    /\ board' = simulate_call(board, c, p).board
    /\ winner' = check_winner(board')
    /\ calls' = calls + 1
    /\ UNCHANGED <<turn, mode>>

FnNext ==
    \/ \E c \in ColIdx, p \in {P1, P2} : FnDrop(c, p)
    \/ \E c \in ColIdx, p \in {P1, P2} : FnSimulate(c, p)
    \/ FnCpuDrop

FnSpec == FnInit /\ [][FnNext]_vars

(***************************************************************************)
(* Vocabulary of the properties, stated on the cells of a board without    *)
(* the functions of the program                                            *)
(***************************************************************************)

Cells == RowIdx \X ColIdx

Directions == {<<0, 1>>, <<1, 0>>, <<1, 1>>, <<-1, 1>>}

\* Four consecutive cells marked p along one of the four directions.
HasLine(b, p) ==
    \E rc \in Cells, d \in Directions :
        \A i \in 0 .. 3 :
            /\ rc[1] + i * d[1] \in RowIdx
            /\ rc[2] + i * d[2] \in ColIdx
            /\ b[rc[1] + i * d[1]][rc[2] + i * d[2]] = p

HasAnyLine(b) == HasLine(b, P1) \/ HasLine(b, P2)

AllCellsOccupied(b) == \A rc \in Cells : b[rc[1]][rc[2]] # EMPTY

ColumnOpen(b, c) == b[0][c] = EMPTY

OpenColumns(b) == {c \in ColIdx : ColumnOpen(b, c)}

Count(b, p) == Cardinality({rc \in Cells : b[rc[1]][rc[2]] = p})

\* The number of occupied cells of column c.
Height(b, c) == Cardinality({r \in RowIdx : b[r][c] # EMPTY})

\* b with p's mark in the lowest empty cell of the open column c.
Dropped(b, c, p) ==
    LET r == CHOOSE x \in RowIdx :
                 /\ b[x][c] = EMPTY
                 /\ \A y \in RowIdx : b[y][c] = EMPTY => y <= x
    IN  [b EXCEPT ![r][c] = p]

\* The game is over: a winner is recorded, or the board is drawn.
GameOver == winner # EMPTY \/ (AllCellsOccupied(board) /\ ~HasAnyLine(board))

IsResetStep == board' = new_board /\ turn' = P1 /\ winner' = EMPTY

(***************************************************************************)
(* Properties                                                              *)
(***************************************************************************)

\* C1: a move request made when the game is over (a winner is recorded or
\* the board is drawn) or for a column that is not open changes neither the
\* board nor the player to move nor the winner; once the game is over, the
\* only step that changes any of the three is a reset; and no step other
\* than a reset changes a cell of a column that was full.
C1_RejectedMoveMutatesNothing ==
    [][ /\ GameOver =>
              /\ UNCHANGED <<board, turn, winner>> \/ IsResetStep
              /\ \A c \in ColIdx :
                    ColumnButton(c) => UNCHANGED <<board, turn, winner>>
        /\ \A c \in ColIdx :
              ~ColumnOpen(board, c) =>
                  /\ ColumnButton(c) => UNCHANGED <<board, turn, winner>>
                  /\ IsResetStep \/ \A r \in RowIdx : board'[r][c] = board[r][c]
      ]_vars

\* C1 witness: a winner is recorded while some column is still open and
\* another is full, and the request for either column leaves the session as
\* it is.
C1_Witness ==
    /\ winner # EMPTY
    /\ \E c, d \in ColIdx :
          /\ ColumnOpen(board, c) /\ ~ColumnOpen(board, d)
          /\ column_button(cur, c) = {cur}
          /\ column_button(cur, d) = {cur}

\* C2: gravity: no occupied cell has an empty cell below it.
C2_Gravity ==
    \A r \in 0 .. (ROWS - 2), c \in ColIdx :
        board[r][c] # EMPTY => board[r + 1][c] # EMPTY

\* C2 witness: in Vs Computer mode, after drops of both players, a column
\* holds at least two pieces while another column is empty.
C2_Witness ==
    /\ mode = VsComputer
    /\ Count(board, P1) >= 1 /\ Count(board, P2) >= 1
    /\ \E c, d \in ColIdx : Height(board, c) >= 2 /\ Height(board, d) = 0

\* C3: the recorded winner is check_winner(board): EMPTY exactly when the
\* board holds no four-in-a-row, else a player who holds one.
C3_WinnerMatchesBoard ==
    /\ winner = check_winner(board)
    /\ winner = EMPTY <=> ~HasAnyLine(board)
    /\ winner # EMPTY => HasLine(board, winner)

\* C3 witness: in Vs Computer mode a click is answered by a drop of the
\* computer that completes PlayerTwo's line, and PlayerTwo is recorded.
C3_Witness ==
    /\ mode = VsComputer /\ turn = P1 /\ Explored(board)
    /\ winner = EMPTY /\ ~HasAnyLine(board)
    /\ \E c \in ColIdx :
          /\ can_play(cur, c)
          /\ \E s \in column_button(cur, c) :
                HasLine(s.board, P2) /\ s.winner = P2

\* C4: is_draw(board) is true exactly when the board is full (every top
\* cell occupied) and holds no four-in-a-row; a full board that holds a
\* four-in-a-row is reported as that player's win, not as a draw.
C4_WinBeforeDraw ==
    /\ is_draw(board) <=>
          ((\A c \in ColIdx : ~ColumnOpen(board, c)) /\ check_winner(board) = EMPTY)
    /\ is_draw(board) <=> (AllCellsOccupied(board) /\ ~HasAnyLine(board))
    /\ \A p \in {P1, P2} :
          (AllCellsOccupied(board) /\ HasLine(board, p))
              => /\ winner = p
                 /\ ~is_draw(board)
                 /\ status(cur) = (IF p = P1 THEN "Player 1 wins!"
                                              ELSE "Player 2 wins!")

\* C4 witness: the board is full and its last drop completed a line.
C4_Witness ==
    /\ AllCellsOccupied(board)
    /\ HasAnyLine(board)
    /\ winner # EMPTY

\* The session is terminal (Won or Drawn) in the next state.
TerminalNext == winner' # EMPTY \/ is_draw(board')

\* C5: in Vs Computer mode a step that drops a piece ends in a terminal
\* state or with PlayerOne to move. It is the drop of the mover in an open
\* column c; when the mover is PlayerOne and that drop leaves the game in
\* progress, exactly one more piece is on the board, PlayerTwo's, in a
\* column of cpu_pick_move, and the winner is read off the board after it.
C5_AtomicTurn ==
    [][ (mode = VsComputer /\ board' # board /\ ~IsResetStep)
          => /\ mode' = VsComputer
             /\ TerminalNext \/ turn' = P1
             /\ winner' = check_winner(board')
             /\ \E c \in OpenColumns(board) :
                   LET b1 == Dropped(board, c, turn)
                   IN  IF turn = P1 /\ ~HasAnyLine(b1) /\ ~AllCellsOccupied(b1)
                       THEN \E k \in cpu_pick_move(b1) :
                               /\ ColumnOpen(b1, k)
                               /\ board' = Dropped(b1, k, P2)
                       ELSE board' = b1
      ]_vars

\* C5 witness: in Vs Computer mode with PlayerOne to move, a click leaves
\* the game in progress after PlayerOne's drop and returns with two more
\* pieces on the board and PlayerOne to move again.
C5_Witness ==
    /\ mode = VsComputer /\ turn = P1 /\ Explored(board)
    /\ \E c \in ColIdx :
          /\ can_play(cur, c)
          /\ cpu_enabled(human_move(cur, c))
          /\ \E s \in column_button(cur, c) :
                /\ Pieces(s.board) = Pieces(board) + 2
                /\ Count(s.board, P2) = Count(board, P2) + 1
                /\ s.turn = P1 /\ s.winner = EMPTY

\* The open columns where a drop of p makes check_winner return p.
WinningColumns(b, p) ==
    {c \in OpenColumns(b) : check_winner(Dropped(b, c, p)) = p}

\* C6 as stated: on every board, whatever cpu_pick_move returns is an open
\* column of that board.
C6_PickIsOpenOnEveryBoard ==
    \A k \in cpu_pick_move(board) : k \in OpenColumns(board)

\* C6 amended: on every board with at least one open column, whatever
\* cpu_pick_move returns is a column of valid_moves(board), an open column.
C6_PickIsOpenWhenAnyOpen ==
    OpenColumns(board) # {} =>
        \A k \in cpu_pick_move(board) :
            /\ \E i \in 1 .. Len(valid_moves(board)) : valid_moves(board)[i] = k
            /\ k \in ColIdx
            /\ ColumnOpen(board, k)

\* C6 witness: some columns are full (column 0 among them), others open,
\* and cpu_pick_move has a choice to make.
C6_Witness ==
    /\ calls >= 1
    /\ ~ColumnOpen(board, 0)
    /\ OpenColumns(board) # {}
    /\ Cardinality(cpu_pick_move(board)) >= 2

\* C7: when some open column wins at once for PlayerTwo, cpu_pick_move
\* returns the lowest such column, whether or not PlayerOne has a winning
\* column of its own.
C7_WinFirst ==
    WinningColumns(board, P2) # {} =>
        cpu_pick_move(board) = {Min(WinningColumns(board, P2))}

\* C7 witness: PlayerTwo and PlayerOne each have a winning column, neither
\* holds a line yet, and PlayerOne's column is left open.
C7_Witness ==
    /\ calls >= 1
    /\ ~HasAnyLine(board)
    /\ WinningColumns(board, P2) # {}
    /\ \E c \in WinningColumns(board, P1) :
          c \notin WinningColumns(board, P2) /\ c \notin cpu_pick_move(board)

\* C8: when no open column wins at once for PlayerTwo and some open column
\* wins at once for PlayerOne, cpu_pick_move returns the lowest such column
\* (the only one when there is exactly one).
C8_BlockNext ==
    (WinningColumns(board, P2) = {} /\ WinningColumns(board, P1) # {}) =>
        cpu_pick_move(board) = {Min(WinningColumns(board, P1))}

\* C8 witness: exactly one column wins for PlayerOne, none for PlayerTwo,
\* it is not the lowest open column, and the pick is that column.
C8_Witness ==
    /\ calls >= 1
    /\ ~HasAnyLine(board)
    /\ WinningColumns(board, P2) = {}
    /\ \E c \in ColIdx :
          /\ WinningColumns(board, P1) = {c}
          /\ \E d \in OpenColumns(board) : d < c
          /\ cpu_pick_move(board) = {c}

\* Open column c comes before open column d in the center ranking: it is
\* closer to column 3, or as close and of lower index.
CloserToCenter(c, d) ==
    \/ abs(c - 3) < abs(d - 3)
    \/ abs(c - 3) = abs(d - 3) /\ c < d

\* The (at most) three open columns ranked first.
CenterCandidates(b) ==
    {c \in OpenColumns(b) :
        Cardinality({d \in OpenColumns(b) : CloserToCenter(d, c)}) < 3}

\* C9: when no open column wins at once for either player, the possible
\* results of cpu_pick_move are exactly the (at most) three open columns
\* closest to column 3, ties ranked by lower index.
C9_CenterPreference ==
    (/\ OpenColumns(board) # {}
     /\ WinningColumns(board, P2) = {}
     /\ WinningColumns(board, P1) = {}) =>
        cpu_pick_move(board) = CenterCandidates(board)

\* C9 witness: the center column is full and columns 1, 2, 4 and 5 are
\* open, so that the cut after three candidates falls between the equally
\* distant columns 1 and 5; no column wins at once.
C9_Witness ==
    /\ calls >= 1
    /\ ~ColumnOpen(board, 3)
    /\ {1, 2, 4, 5} \subseteq OpenColumns(board)
    /\ WinningColumns(board, P2) = {}
    /\ WinningColumns(board, P1) = {}
    /\ cpu_pick_move(board) = {1, 2, 4}

\* C10: check_winner (its result is kept in winner) returns EMPTY exactly
\* when the board holds no line of four; a player it returns holds a line;
\* when only one player holds a line it returns that player; on the empty
\* board it returns EMPTY.
C10_CheckWinner ==
    /\ winner = check_winner(board)
    /\ winner \in {EMPTY, P1, P2}
    /\ winner = EMPTY <=> ~HasAnyLine(board)
    /\ \A p \in {P1, P2} :
          /\ winner = p => HasLine(board, p)
          /\ (HasLine(board, p) /\ ~HasLine(board, 3 - p)) => winner = p
    /\ check_winner(new_board) = EMPTY

\* C10 witness: the board holds a line of each player and check_winner
\* returns one of the two.
C10_Witness ==
    /\ calls >= 1
    /\ HasLine(board, P1)
    /\ HasLine(board, P2)
    /\ winner \in {P1, P2}

\* The lowest empty cell of column c: the empty row of largest index.
LowestEmptyRow(b, c) ==
    CHOOSE x \in RowIdx :
        /\ b[x][c] = EMPTY
        /\ \A y \in RowIdx : b[y][c] = EMPTY => y <= x

ColumnFull(b, c) == \A r \in RowIdx : b[r][c] # EMPTY

\* C11: drop_piece on a column with no empty cell returns None and leaves
\* every cell of the board as it was.
C11_FullColumnDrop ==
    \A c \in ColIdx, p \in {P1, P2} :
        ColumnFull(board, c) =>
            /\ drop_piece(board, c, p).ret = None
            /\ \A rc \in Cells :
                  drop_piece(board, c, p).board[rc[1]][rc[2]] = board[rc[1]][rc[2]]

\* C11 witness: after a direct call, a column is full while others are not,
\* and a drop in the full column returns None.
C11_Witness ==
    /\ calls >= 1
    /\ \E c, d \in ColIdx :
          /\ ColumnFull(board, c) /\ ~ColumnFull(board, d)
          /\ drop_piece(board, c, P1).ret = None
          /\ drop_piece(board, c, P2).board = board

C14_OpenColumnDrop ==
    \A c \in ColIdx, p \in {P1, P2} :
        ~ColumnFull(board, c) =>
            LET d == drop_piece(board, c, p)
                r == LowestEmptyRow(board, c)
            IN  /\ d.ret = r
                /\ d.board[r][c] = p
                /\ \A rc \in Cells \ {<<r, c>>} :
                      d.board[rc[1]][rc[2]] = board[rc[1]][rc[2]]
                /\ r = (ROWS - 1) - Height(board, c)

\* C14 witness: after a direct call, a column is partly filled and a drop
\* in it lands right above its pieces.
C14_Witness ==
    /\ calls >= 1
    /\ \E c \in ColIdx :
          /\ Height(board, c) \in 1 .. (ROWS - 1)
          /\ drop_piece(board, c, P2).ret = (ROWS - 1) - Height(board, c)
          /\ drop_piece(board, c, P2).board # board

\* C13: a click on Reset, from any state, leaves an empty board, PlayerOne
\* to move and no winner, which is the initial session but for the mode;
\* the mode is left as selected.
C13_ResetRestoresInitial ==
    [][ Reset =>
          /\ \A rc \in Cells : board'[rc[1]][rc[2]] = EMPTY
          /\ turn' = P1
          /\ winner' = EMPTY
          /\ mode' = mode
          /\ <<board', turn', winner'>> =
                <<initial_session.board, initial_session.turn,
                  initial_session.winner>>
      ]_vars

\* C13 witness: in Vs Computer mode the board is drawn, and reset leaves
\* the empty board with PlayerOne to move, no winner and the same mode.
C13_Witness ==
    /\ mode = VsComputer
    /\ AllCellsOccupied(board) /\ winner = EMPTY
    /\ reset_game(cur) = Session(new_board, P1, EMPTY, VsComputer)

\* C15: in Vs Computer mode a human column selection never places a
\* PlayerTwo mark: every step that drops pieces while the mode is Vs Computer
\* is made with PlayerOne to move and adds exactly one PlayerOne mark (the
\* click) and at most one PlayerTwo mark (the computer's answer).
C15_HumanNeverPlacesPlayerTwo ==
    [][ (mode = VsComputer /\ board' # board /\ ~IsResetStep) =>
          /\ turn = P1
          /\ Count(board', P1) = Count(board, P1) + 1
          /\ Count(board', P2) - Count(board, P2) \in {0, 1}
      ]_vars

\* PlayerOne has dropped as many pieces as PlayerTwo, or one more; while
\* the game is in progress PlayerOne is to move exactly when the counts are
\* equal.
TurnMatchesCounts(b, t, w) ==
    LET ahead == Count(b, P1) - Count(b, P2)
    IN  /\ ahead \in {0, 1}
        /\ (w = EMPTY /\ ~AllCellsOccupied(b)) => (t = P1 <=> ahead = 0)

\* The game is in progress in the next state.
InProgressNext == winner' = EMPTY /\ ~AllCellsOccupied(board')

\* C16: in every state PlayerOne's pieces outnumber PlayerTwo's by 0 or 1
\* and, while the game is in progress, PlayerOne is to move exactly when
\* the counts are equal. A drop flips the player to move exactly when it
\* leaves the game in progress: a step of one drop flips the turn iff the
\* game is then in progress; a step of two drops (PlayerOne's click and the
\* computer's answer) returns the turn to PlayerOne iff the game is then in
\* progress and leaves it with PlayerTwo otherwise. A step that drops
\* nothing leaves the turn alone, except reset, which gives it to PlayerOne.
C16_TurnsAlternate ==
    [][ /\ TurnMatchesCounts(board, turn, winner)
        /\ TurnMatchesCounts(board', turn', winner')
        /\ IF board' = board THEN turn' = turn
           ELSE IF IsResetStep THEN TRUE
           ELSE IF Pieces(board') = Pieces(board) + 1
                THEN (turn' # turn) <=> InProgressNext
                ELSE /\ Pieces(board') = Pieces(board) + 2
                     /\ mode = VsComputer /\ turn = P1
                     /\ turn' = (IF InProgressNext THEN P1 ELSE P2)
      ]_vars

\* C16 witness: the mode was changed to Vs Computer in the middle of a game
\* while PlayerTwo is to move: PlayerOne is one piece ahead.
C16_Witness ==
    /\ mode = VsComputer /\ turn = P2 /\ winner = EMPTY
    /\ Count(board, P1) = Count(board, P2) + 1
    /\ Count(board, P2) >= 1
    /\ \E c \in ColIdx : can_play(cur, c)

\* C17: whenever the handler of an enabled column button reaches the
\* computer's move, the board it passes to cpu_pick_move has an open
\* column: valid_moves is non-empty, every column cpu_pick_move can return
\* is open, so the drop for PlayerTwo returns a row and adds one PlayerTwo
\* piece; the fallback (column 0 on a board without valid moves) is not
\* what was returned.
C17_CpuNeverInvokedOnFullBoard ==
    \A c \in ColIdx :
        can_play(cur, c) =>
            LET h == human_move(cur, c)
            IN  cpu_enabled(h) =>
                    /\ valid_moves(h.board) # <<>>
                    /\ OpenColumns(h.board) # {}
                    /\ \A k \in cpu_pick_move(h.board) :
                          /\ ColumnOpen(h.board, k)
                          /\ drop_piece(h.board, k, P2).ret # None
                          /\ Count(drop_piece(h.board, k, P2).board, P2)
                                = Count(h.board, P2) + 1

\* C17 witness: PlayerOne's click leaves a single empty cell and the
\* computer is invoked on that board.
C17_Witness ==
    /\ Pieces(board) = ROWS * COLS - 2
    /\ \E c \in ColIdx :
          /\ can_play(cur, c)
          /\ cpu_enabled(human_move(cur, c))
          /\ Cardinality(OpenColumns(human_move(cur, c).board)) = 1

\* The game is over in session s: a winner is recorded or the board is a
\* draw.
Terminal(s) == s.winner # EMPTY \/ is_draw(s.board)

\* C18: the number of occupied cells is a variant of the game, in both
\* modes. Every accepted move (a click on an enabled column button) strictly
\* increases it, by one or two drops, and never beyond ROWS * COLS; a move
\* is accepted only while the game is not over; and a board with all
\* ROWS * COLS cells occupied is Won or Drawn. Without a reset a game
\* therefore ends after at most ROWS * COLS drops.
C18_EveryGameTerminates ==
    /\ Pieces(board) <= ROWS * COLS
    /\ Pieces(board) = ROWS * COLS => Terminal(cur)
    /\ \A c \in ColIdx :
          can_play(cur, c) =>
              /\ ~Terminal(cur)
              /\ \A s \in column_button(cur, c) :
                    /\ Pieces(s.board) > Pieces(board)
                    /\ Pieces(s.board) <= Pieces(board) + 2
                    /\ Pieces(s.board) <= ROWS * COLS
                    /\ s.mode = mode

\* C18 witness: the forty-second drop is accepted and ends the game in a
\* draw.
C18_Witness ==
    /\ Pieces(board) = ROWS * COLS - 1
    /\ \E c \in ColIdx :
          /\ can_play(cur, c)
          /\ \E s \in column_button(cur, c) :
                /\ Pieces(s.board) = ROWS * COLS
                /\ s.winner = EMPTY
                /\ is_draw(s.board)

\* C19: a state that is not terminal (no winner recorded, and the board is
\* not a draw: not both completely occupied and without a line) has an
\* open column whose button is enabled, and a click on it changes the
\* board.
C19_NoStuckState ==
    (winner = EMPTY /\ ~(AllCellsOccupied(board) /\ ~HasAnyLine(board))) =>
        /\ ~is_draw(board)
        /\ \E c \in ColIdx :
              /\ ColumnOpen(board, c)
              /\ can_play(cur, c)
              /\ \A s \in column_button(cur, c) : s.board # board

\* C19 witness: a game in progress with a single open column, whose button
\* is enabled.
C19_Witness ==
    /\ winner = EMPTY
    /\ ~is_draw(board)
    /\ Cardinality(OpenColumns(board)) = 1
    /\ \E c \in OpenColumns(board) : can_play(cur, c)

\* The cells a handler run filled: empty in b, occupied in b2.
NewCells(b, b2) == {rc \in Cells : b[rc[1]][rc[2]] = EMPTY /\ b2[rc[1]][rc[2]] # EMPTY}

\* Board b with cell rc emptied.
Without(b, rc) == [b EXCEPT ![rc[1]][rc[2]] = EMPTY]

\* Session s is Won(p) with the properties of a recorded winner: p has a
\* line, the other player has none, and p is still the player to move.
WonBy(s, p) ==
    /\ s.winner = p
    /\ s.turn = p
    /\ HasLine(s.board, p)
    /\ ~HasLine(s.board, 3 - p)

\* C20: in every Won(p) state the player-to-move field equals p, p has a
\* four-in-a-row and the other player has none; and whenever a click records
\* a winner p, the last piece dropped by that click is p's: taking it away
\* leaves a board without any line (the board on which that drop was made),
\* and every other piece the click dropped is the other player's.
C20_WinnerIsLastDropper ==
    /\ winner # EMPTY => WonBy(cur, winner)
    /\ \A c \in ColIdx :
          can_play(cur, c) =>
              \A s \in column_button(cur, c) :
                  s.winner # EMPTY =>
                      /\ WonBy(s, s.winner)
                      /\ \E last \in NewCells(board, s.board) :
                            /\ s.board[last[1]][last[2]] = s.winner
                            /\ ~HasAnyLine(Without(s.board, last))
                            /\ \A rc \in NewCells(board, s.board) \ {last} :
                                  s.board[rc[1]][rc[2]] = 3 - s.winner

\* C20 witness: in Vs Computer mode PlayerTwo's drop, made after
\* PlayerOne's, has won the game: PlayerTwo is recorded and is still to
\* move.
C20_Witness ==
    /\ mode = VsComputer
    /\ winner = P2
    /\ turn = P2
    /\ Count(board, P1) = Count(board, P2)
    /\ HasLine(board, P2)
    /\ ~HasLine(board, P1)

====
